---- MODULE Spec2Model ----
(***************************************************************************)
(* tb - tmux bridge.  A model of src/src/main.rs: the marker protocol      *)
(* (build_shell_command / find_exit_code / extract_output), the            *)
(* synchronous executor (cmd_run) and the task pane allocator              *)
(* (cmd_launch / cmd_done) on top of the tmux control surface.             *)
(*                                                                         *)
(* Text is modelled character by character: a Rust &str is a sequence of   *)
(* one-character strings, so prefix tests, searches, splitting into lines  *)
(* and integer parsing are computed, not assumed.                          *)
(***************************************************************************)
EXTENDS Integers, Sequences, FiniteSets, TLC

VARIABLES
    \* ---- marker protocol, decoded on a given screen text ----
    in_pre,        \* screen lines before the start sentinel
    in_start,      \* the start sentinel line, or <<>> when absent (as a sequence of lines)
    in_out,        \* lines the command printed
    in_code,       \* exit status the shell substituted for $?
    in_post,       \* screen lines after the end sentinel
    content,       \* captured pane text handed to the decoder
    m_pc,          \* "captured" before decoding, "decoded" after
    m_exit,        \* result of find_exit_code
    m_output,      \* result of extract_output
    \* ---- one invocation of `tb run` and the pane it drives ----
    marker_id,     \* the marker id of this invocation
    timeout,       \* --timeout, seconds
    max_time,      \* --max-time, seconds
    command,       \* the argument vector after --
    cmd_out,       \* what the target command prints, chunk by chunk
    cmd_code,      \* the exit status the target command ends with
    sessions,      \* names of the live tmux sessions
    screen,        \* text of the session's active pane (visible + scrollback)
    cmd_pc,        \* "none", "typed", "started", "exited": the injected line in the pane's shell
    cmd_printed,   \* number of chunks of cmd_out printed so far
    r_pc,          \* position of cmd_run
    now,           \* the monotonic clock, in ticks of one poll interval
    start_time,
    last_output_time,
    last_output_len,
    pane_content,  \* the text captured at the current poll
    keys,          \* control keys sent by kill_running_command
    outcome,       \* how the invocation ended
    exit_code,     \* the exit code decoded from the end sentinel
    exit_status,   \* the exit status of the tb process
    stdout,        \* what the invocation printed on its standard output
    \* ---- the panes of one session, driven by `tb launch` and `tb done` ----
    panes,         \* the panes of window 0 in index order: [id, tag]; tag "" = no @tb_task
    created,       \* number of panes split off so far (the next pane id)
    t_result,      \* what the last launch or done did and reported
    max_issued,    \* largest n of the ids t{n} returned by successful launches
    streak,        \* number of launches so far if nothing else has happened, else -1
    faults,        \* number of tmux calls that have failed so far
    active,        \* id of the pane with the input focus, -1 when there is no pane
    launches,      \* the `tb launch` processes running side by side: [pc, task_count, pane_target, task_id]
    \* ---- one call of a function of main.rs on given arguments ----
    f_pc,          \* "idle", "called" with the arguments in f_in, "returned"
    f_in,          \* the arguments
    f_out          \* what the function returned or printed

mvars == <<in_pre, in_start, in_out, in_code, in_post, content, m_pc, m_exit, m_output>>

rvars == <<timeout, max_time, command, cmd_out, cmd_code, sessions, screen, cmd_pc,
           cmd_printed, r_pc, now, start_time, last_output_time, last_output_len,
           pane_content, keys, outcome, exit_code, exit_status, stdout>>

tvars == <<panes, created, t_result, max_issued, streak, faults, active, launches>>

fvars == <<f_pc, f_in, f_out>>

vars == <<mvars, marker_id, rvars, tvars, fvars>>

-----------------------------------------------------------------------------
(* Option<T> *)
None == [some |-> FALSE]
Some(v) == [some |-> TRUE, val |-> v]

\* the decoder's variables while cmd_run is modelled
MarkerIdle ==
    /\ in_pre = <<>> /\ in_start = <<>> /\ in_out = <<>> /\ in_code = 0
    /\ in_post = <<>> /\ content = <<>> /\ m_pc = "idle" /\ m_exit = None
    /\ m_output = <<>>

\* cmd_run's variables while another part is modelled
RunIdle ==
    /\ timeout = 0 /\ max_time = 0 /\ command = <<>> /\ cmd_out = <<>> /\ cmd_code = 0
    /\ sessions = {} /\ screen = <<>> /\ cmd_pc = "none" /\ cmd_printed = 0
    /\ r_pc = "idle" /\ now = 0 /\ start_time = 0 /\ last_output_time = 0
    /\ last_output_len = 0 /\ pane_content = <<>> /\ keys = <<>> /\ outcome = "none"
    /\ exit_code = None /\ exit_status = None /\ stdout = <<>>

\* the session's panes while another part is modelled
TasksIdle ==
    /\ panes = <<>> /\ created = 0 /\ t_result = [op |-> "none"]
    /\ max_issued = 0 /\ streak = 0 /\ faults = 0 /\ launches = <<>>
    /\ active = 0 - 1

\* no function call is modelled on its own
FnIdle == f_pc = "idle" /\ f_in = <<>> /\ f_out = <<>>

(* Sequences over S of length at most n *)
SeqsUpTo(S, n) == UNION {[1..k -> S] : k \in 0..n}

-----------------------------------------------------------------------------
(* &str helpers *)

\* str::starts_with
StartsWith(s, p) == Len(p) <= Len(s) /\ SubSeq(s, 1, Len(p)) = p

\* str::ends_with
EndsWith(s, p) == Len(p) <= Len(s) /\ SubSeq(s, Len(s) - Len(p) + 1, Len(s)) = p

\* str::strip_prefix
StripPrefix(s, p) == IF StartsWith(s, p) THEN Some(SubSeq(s, Len(p) + 1, Len(s))) ELSE None

\* str::find(&str): byte offset (0-based) of the first occurrence
Find(s, p) ==
    LET hits == {i \in 0..(Len(s) - Len(p)) : SubSeq(s, i + 1, i + Len(p)) = p}
    IN  IF hits = {} THEN None
        ELSE Some(CHOOSE i \in hits : \A j \in hits : i <= j)

\* slice::join / str concatenation of a list with a separator
RECURSIVE Join(_, _)
Join(ls, sep) ==
    IF ls = <<>> THEN <<>>
    ELSE IF Len(ls) = 1 THEN ls[1]
    ELSE ls[1] \o sep \o Join(Tail(ls), sep)

\* str::lines: split at "\n"; a line's trailing "\r\n" or "\n" is removed;
\* a final line without line ending is returned as it is.
RECURSIVE Lines(_)
Lines(s) ==
    IF s = <<>> THEN <<>>
    ELSE LET nl == Find(s, <<"\n">>)
         IN  IF ~nl.some THEN <<s>>
             ELSE LET raw == SubSeq(s, 1, nl.val)
                      line == IF EndsWith(raw, <<"\r">>)
                              THEN SubSeq(raw, 1, Len(raw) - 1) ELSE raw
                  IN  <<line>> \o Lines(SubSeq(s, nl.val + 2, Len(s)))

Digit == <<"0", "1", "2", "3", "4", "5", "6", "7", "8", "9">>
DigitVal(ch) == (CHOOSE i \in 1..10 : Digit[i] = ch) - 1
IsDigit(ch) == \E i \in 1..10 : Digit[i] = ch

I32Max == 2147483647
I32Min == (0 - I32Max) - 1

\* the checked accumulation of i32::from_str: multiply by ten, then add
\* (or, for a negative number, subtract) the digit; None on overflow
RECURSIVE ParseAcc(_, _, _)
ParseAcc(ds, acc, neg) ==
    IF ds = <<>> THEN Some(acc)
    ELSE LET d == DigitVal(Head(ds))
         IN  IF acc > I32Max \div 10 \/ acc < 0 - (I32Max \div 10) THEN None
             ELSE IF neg
                  THEN (IF acc * 10 < I32Min + d THEN None
                        ELSE ParseAcc(Tail(ds), acc * 10 - d, neg))
                  ELSE (IF acc * 10 > I32Max - d THEN None
                        ELSE ParseAcc(Tail(ds), acc * 10 + d, neg))

\* str::parse::<i32>: optional sign, at least one digit, nothing else,
\* value within the i32 range; anything else is Err (None)
ParseI32(s) ==
    LET neg  == s # <<>> /\ s[1] = "-"
        sign == s # <<>> /\ s[1] \in {"-", "+"}
        ds   == IF sign THEN Tail(s) ELSE s
    IN  IF ds = <<>> \/ \E i \in 1..Len(ds) : ~IsDigit(ds[i]) THEN None
        ELSE ParseAcc(ds, 0, neg)

\* decimal rendering of a non-negative integer, as the shell prints $?
RECURSIVE ToDigits(_)
ToDigits(n) ==
    IF n < 10 THEN <<Digit[n + 1]>>
    ELSE ToDigits(n \div 10) \o <<Digit[(n % 10) + 1]>>

-----------------------------------------------------------------------------
(* Marker protocol *)

\* the alphabet marker ids are drawn from
Charset == {"a", "b", "c", "d", "e", "f", "g", "h", "i", "j", "k", "l", "m",
            "n", "o", "p", "q", "r", "s", "t", "u", "v", "w", "x", "y", "z",
            "0", "1", "2", "3", "4", "5", "6", "7", "8", "9"}

MarkerLen == 8

\* the marker ids the model generates: a sample of the 36^8 possible ones
MarkerIds == {<<"k", "7", "q", "2", "m", "9", "x", "b">>}

\* a marker id of another invocation
OtherMarkerId == <<"k", "7", "q", "2", "m", "9", "x", "a">>

\* format!("___START_{}___", marker_id)
start_marker(id) == <<"_", "_", "_", "S", "T", "A", "R", "T", "_">> \o id \o <<"_", "_", "_">>

\* format!("___END_{}_", marker_id)
end_marker_prefix(id) == <<"_", "_", "_", "E", "N", "D", "_">> \o id \o <<"_">>

\* what the injected `echo "___END_{id}_$?___"` prints once the shell has
\* substituted the exit status c for $?
EndLine(id, c) == end_marker_prefix(id) \o ToDigits(c) \o <<"_", "_", "_">>

\* LineExitCode with the slice before the closing ___ one character short
LineExitCode_ShortSlice(line, prefix) ==
    LET rest == StripPrefix(line, prefix)
    IN  IF ~rest.some THEN None
        ELSE LET end == Find(rest.val, <<"_", "_", "_">>)
             IN  IF ~end.some THEN None
                 ELSE ParseI32(SubSeq(rest.val, 1, end.val - 1))

\* the unparsable exit status read as 0
LineExitCode_DefaultZero(line, prefix) ==
    LET rest == StripPrefix(line, prefix)
    IN  IF ~rest.some THEN None
        ELSE LET end == Find(rest.val, <<"_", "_", "_">>)
             IN  IF ~end.some THEN None
                 ELSE LET code == ParseI32(SubSeq(rest.val, 1, end.val))
                      IN  IF code.some THEN code ELSE Some(0)

\* the exit code carried by one line, if it is a qualifying end sentinel
LineExitCode(line, prefix) ==
    LET rest == StripPrefix(line, prefix)
    IN  IF ~rest.some THEN None
        ELSE LET end == Find(rest.val, <<"_", "_", "_">>)
             IN  IF ~end.some THEN None
                 ELSE ParseI32(SubSeq(rest.val, 1, end.val))

\* the search that keeps the last qualifying line instead of the first
RECURSIVE FirstExitCode_Last(_, _)
FirstExitCode_Last(lines, prefix) ==
    IF lines = <<>> THEN None
    ELSE LET c == LineExitCode(Head(lines), prefix)
             later == FirstExitCode_Last(Tail(lines), prefix)
         IN  IF later.some THEN later ELSE c

\* for line in content.lines(): the first qualifying line returns
RECURSIVE FirstExitCode(_, _)
FirstExitCode(lines, prefix) ==
    IF lines = <<>> THEN None
    ELSE LET c == LineExitCode(Head(lines), prefix)
         IN  IF c.some THEN c ELSE FirstExitCode(Tail(lines), prefix)

find_exit_code(text, prefix) == FirstExitCode(Lines(text), prefix)

\* extract_output that starts at the marker line instead of after it
extract_output_FromMarker(text, start, prefix) ==
    LET lines   == Lines(text)
        ends    == {i \in 1..Len(lines) : StartsWith(lines[i], prefix)}
        last    == IF ends = {} THEN Len(lines)
                   ELSE CHOOSE i \in ends : \A j \in ends : i <= j
        starts  == {i \in 1..last : StartsWith(lines[i], start)}
        start_idx == IF starts = {} THEN None
                     ELSE Some((CHOOSE i \in starts : \A j \in starts : i <= j) - 1)
        end_idx   == IF ends = {} THEN None ELSE Some(last - 1)
    IN  IF start_idx.some /\ end_idx.some /\ start_idx.val < end_idx.val
        THEN Join(SubSeq(lines, start_idx.val + 1, end_idx.val), <<"\n">>)
        ELSE <<>>

extract_output(text, start, prefix) ==
    LET lines   == Lines(text)
        ends    == {i \in 1..Len(lines) : StartsWith(lines[i], prefix)}
        \* the loop breaks at the first line that starts with the end prefix
        last    == IF ends = {} THEN Len(lines)
                   ELSE CHOOSE i \in ends : \A j \in ends : i <= j
        starts  == {i \in 1..last : StartsWith(lines[i], start)}
        \* 0-based start_idx = Some(i + 1) and end_idx = Some(i)
        start_idx == IF starts = {} THEN None
                     ELSE Some(CHOOSE i \in starts : \A j \in starts : i <= j)
        end_idx   == IF ends = {} THEN None ELSE Some(last - 1)
    IN  IF start_idx.some /\ end_idx.some /\ start_idx.val < end_idx.val
        THEN Join(SubSeq(lines, start_idx.val + 1, end_idx.val), <<"\n">>)
        ELSE <<>>

-----------------------------------------------------------------------------
(* Quoting and the injected line *)

\* str::replace(char, &str)
RECURSIVE Replace(_, _, _)
Replace(s, ch, rep) ==
    IF s = <<>> THEN <<>>
    ELSE (IF Head(s) = ch THEN rep ELSE <<Head(s)>>) \o Replace(Tail(s), ch, rep)

\* the grave accent character (U+0060), written as an atom: the lexer of
\* TLA+ does not accept it as a one-character string next to apostrophes
Backtick == "<grave>"

double_quote_escape(s) ==
    LET e1 == Replace(s, "\\", <<"\\", "\\">>)
        e2 == Replace(e1, "$", <<"\\", "$">>)
        e3 == Replace(e2, Backtick, <<"\\", Backtick>>)
        e4 == Replace(e3, "\"", <<"\\", "\"">>)
        e5 == Replace(e4, "!", <<"\\", "!">>)
    IN  <<"\"">> \o e5 \o <<"\"">>

\* command.iter().map(double_quote_escape).collect().join(" ")
EscapedJoin(cmd) == Join([i \in 1..Len(cmd) |-> double_quote_escape(cmd[i])], <<" ">>)

build_shell_command(cmd, id) ==
    LET cmd_str == EscapedJoin(cmd)
        inner_script ==
            <<"e", "c", "h", "o", " ", "'", "_", "_", "_", "S", "T", "A", "R", "T", "_">>
            \o id \o <<"_", "_", "_", "'", ";", " ">> \o cmd_str
            \o <<";", " ", "e", "c", "h", "o", " ", "\"", "_", "_", "_", "E", "N", "D", "_">>
            \o id \o <<"_", "$", "?", "_", "_", "_", "\"">>
        escaped_script == Replace(inner_script, "'", <<"'", "\\", "'", "'">>)
    IN  <<"s", "h", " ", "-", "c", " ", "'">> \o escaped_script \o <<"'">>

-----------------------------------------------------------------------------
(* Display *)

\* lines.iter().take(n) / skip(n), each line printed with println!
RECURSIVE PrintLines(_)
PrintLines(ls) ==
    IF ls = <<>> THEN <<>> ELSE Head(ls) \o <<"\n">> \o PrintLines(Tail(ls))

\* the text print_output writes to standard output
print_output(output, first, last) ==
    LET lines == Lines(output)
        total == Len(lines)
    IN  IF total <= first + last
        THEN output \o <<"\n">>
        ELSE PrintLines(SubSeq(lines, 1, first))
             \o <<"\n", ".", ".", ".", " ", "(">> \o ToDigits(total - first - last)
             \o <<" ", "l", "i", "n", "e", "s", " ", "t", "r", "u", "n", "c", "a", "t", "e",
                  "d", ")", " ", ".", ".", ".", "\n">> \o <<"\n">>
             \o PrintLines(SubSeq(lines, total - last + 1, total))

-----------------------------------------------------------------------------
(* The decoder applied to screen texts *)

MaxPre == 1
MaxOut == 2
MaxPost == 1

\* exit statuses put on the screens that are decoded
MarkerCodes == {0, 1, 42, 124, 255}

PlainLine == <<"a">>
PromptLine == <<"$", " ">>
\* lines that contain a sentinel without starting with it
NearStart(id) == <<" ">> \o start_marker(id)
NearEnd(id) == <<"x">> \o EndLine(id, 7)
\* an end sentinel of another invocation
OtherEnd == EndLine(OtherMarkerId, 3)
\* lines that do start with a sentinel of this invocation
FakeStart(id) == start_marker(id) \o <<"z">>
FakeEnd(id) == EndLine(id, 9)
BadEnd(id) == end_marker_prefix(id) \o <<"x", "_", "_", "_">>

PreLineVals(id) == {PromptLine, NearEnd(id), BadEnd(id)}
OutLineVals(id) == {PlainLine, <<>>, NearStart(id), OtherEnd, FakeEnd(id)}
PostLineVals(id) == {PromptLine, EndLine(id, 5), start_marker(id)}

\* tmux capture-pane -p: every screen line followed by a line feed
ScreenText(lines) == IF lines = <<>> THEN <<>> ELSE Join(lines, <<"\n">>) \o <<"\n">>

InitMarker ==
    /\ marker_id \in MarkerIds
    /\ in_pre \in SeqsUpTo(PreLineVals(marker_id), MaxPre)
    /\ in_start \in {<<>>, <<start_marker(marker_id)>>}
    /\ in_out \in SeqsUpTo(OutLineVals(marker_id), MaxOut)
    /\ in_code \in MarkerCodes
    /\ in_post \in SeqsUpTo(PostLineVals(marker_id), MaxPost)
    /\ content = ScreenText(in_pre \o in_start \o in_out
                            \o <<EndLine(marker_id, in_code)>> \o in_post)
    /\ m_pc = "captured"
    /\ m_exit = None
    /\ m_output = <<>>
    /\ RunIdle
    /\ TasksIdle
    /\ FnIdle

\* cmd_run's decoding of one captured text
Decode ==
    /\ m_pc = "captured"
    /\ m_exit' = find_exit_code(content, end_marker_prefix(marker_id))
    /\ m_output' = extract_output(content, start_marker(marker_id),
                                  end_marker_prefix(marker_id))
    /\ m_pc' = "decoded"
    /\ UNCHANGED <<in_pre, in_start, in_out, in_code, in_post, content, marker_id, rvars, tvars, fvars>>

NextMarker == Decode

SpecMarker == InitMarker /\ [][NextMarker]_vars

\* the screen has the round-trip shape: no line before the end sentinel, other
\* than the start sentinel line itself, starts with either sentinel
NoSentinel(line) ==
    /\ ~StartsWith(line, start_marker(marker_id))
    /\ ~StartsWith(line, end_marker_prefix(marker_id))

RoundTripShape ==
    /\ in_start # <<>>
    /\ \A i \in 1..Len(in_pre) : NoSentinel(in_pre[i])
    /\ \A i \in 1..Len(in_out) : NoSentinel(in_out[i])

\* C3: marker round-trip. On a screen of earlier lines, the start sentinel, the
\* output lines, the end sentinel carrying c and any later lines, where no
\* earlier line and no output line starts with a sentinel, decoding yields the
\* output lines in their order (joined by line feeds) and the exit code c.
C3_RoundTrip ==
    (m_pc = "decoded" /\ RoundTripShape) =>
        /\ m_exit = Some(in_code)
        /\ m_output = Join(in_out, <<"\n">>)

\* a decoded screen with earlier lines, two output lines and a later line
\* that is itself an end sentinel
C3_Witness ==
    /\ m_pc = "decoded" /\ RoundTripShape
    /\ Len(in_pre) >= 1 /\ Len(in_out) = 2 /\ in_out[1] # in_out[2]
    /\ in_post = <<EndLine(marker_id, 5)>>
    /\ in_code = 42

-----------------------------------------------------------------------------
(* Session resolution *)

\* session_prefix(): "tbtest-" when TB_TEST_MODE is set
session_prefix(test_mode) == IF test_mode THEN "tbtest-" ELSE "tb-"

tmux_session_name(test_mode, session_id) == session_prefix(test_mode) \o session_id

\* Ok(id) is Some(id), Err is None
resolve_session(session, env) ==
    IF session.some THEN Some(session.val)
    ELSE IF env.some /\ env.val # "" THEN Some(env.val)
    ELSE None

\* no existence check at all
session_exists_Always(test_mode, session_id, spawned) == TRUE

\* tmux has-session: false when tmux cannot be spawned or reports failure
session_exists(test_mode, session_id, spawned) ==
    spawned /\ tmux_session_name(test_mode, session_id) \in sessions

\* the values of --session and of TB_SESSION the model draws from
SessionArgs == {None, Some("s1"), Some("zz")}
SessionEnvs == {None, Some(""), Some("s1")}

-----------------------------------------------------------------------------
(* The synchronous executor: cmd_run *)

PollIntervalMs == 100
\* the clock ticks once per poll interval
TicksPerSec == 1000 \div PollIntervalMs
KillGraceSecs == 3
TimeoutStatus == 124
FailureStatus == 1

MaxTimeout == 2
MaxMaxTime == 2
\* a sleep of one poll interval may last longer, up to this many ticks
MaxSleepTicks == 2

\* an exit status that only tells success from failure
ExitStatus_Flat(code) == IF code = 0 THEN 0 ELSE 1

\* std::process::exit(code): the status the parent sees is the low 8 bits
ExitStatus(code) == code % 256

\* the exit statuses a command can end with
ExitCodes == 0..255

\* the elapsed time rounded to the nearest second instead of cut to whole seconds
ElapsedSecs_Rounded(since) == ((now - since) + TicksPerSec \div 2) \div TicksPerSec

\* Instant::elapsed().as_secs()
ElapsedSecs(since) == (now - since) \div TicksPerSec

\* the max-time check measured from the last change of output
MaxTimeExceeded_SinceOutput == ElapsedSecs(last_output_time) >= max_time

\* a max-time check that never fires
MaxTimeExceeded_Never == FALSE

\* start_time.elapsed().as_secs() >= max_time
MaxTimeExceeded == ElapsedSecs(start_time) >= max_time

\* the no-output check with > in place of >=
NoOutputExceeded_Strict(seen_at) == ElapsedSecs(seen_at) > timeout

\* last_output_time.elapsed().as_secs() >= timeout
NoOutputExceeded(seen_at) == ElapsedSecs(seen_at) >= timeout

cfgvars == <<timeout, max_time, command, cmd_out, cmd_code, sessions>>
panevars == <<screen, cmd_pc, cmd_printed>>
loopvars == <<start_time, last_output_time, last_output_len, pane_content>>
endvars == <<keys, outcome, exit_code, exit_status, stdout>>

\* what the target command prints: nothing, or two lines one after the other
RunOutputs == {<<>>, << <<"a", "\n">>, <<"b", "b", "\n">> >>}
RunCommands == {<< <<"c">> >>}
RunCodes == {3}

InitRunWith(timeouts, max_times, outs, codes) ==
    /\ MarkerIdle
    /\ TasksIdle
    /\ FnIdle
    /\ marker_id = <<>>
    /\ timeout \in timeouts
    /\ max_time \in max_times
    /\ command \in RunCommands
    /\ cmd_out \in outs
    /\ cmd_code \in codes
    /\ sessions = {"tb-s1"}
    /\ screen = PromptLine
    /\ cmd_pc = "none"
    /\ cmd_printed = 0
    /\ r_pc = "init"
    /\ now = 0
    /\ start_time = 0
    /\ last_output_time = 0
    /\ last_output_len = 0
    /\ pane_content = <<>>
    /\ keys = <<>>
    /\ outcome = "none"
    /\ exit_code = None
    /\ exit_status = None
    /\ stdout = <<>>

InitRun == InitRunWith(0..MaxTimeout, 0..MaxMaxTime, RunOutputs, RunCodes)

\* a failure that interrupts the pane before it is reported
RunFail_Interrupting ==
    /\ r_pc' = "done"
    /\ outcome' = "Failed"
    /\ exit_status' = Some(FailureStatus)
    /\ keys' = keys \o << [key |-> "C-c", at |-> now, ok |-> TRUE] >>
    /\ UNCHANGED <<exit_code, stdout>>

\* main(): an Err from the command is printed and the process exits 1
RunFail ==
    /\ r_pc' = "done"
    /\ outcome' = "Failed"
    /\ exit_status' = Some(FailureStatus)
    /\ UNCHANGED <<keys, exit_code, stdout>>

\* cmd_run up to the poll loop: resolve the session, check that it exists,
\* generate the marker, build the line and send it to the session
RunStart ==
    /\ r_pc = "init"
    /\ \E session \in SessionArgs, env \in SessionEnvs, test_mode \in BOOLEAN,
          spawned \in BOOLEAN, sent \in {"ok", "failed", "spawn_error"},
          id \in MarkerIds :
        LET session_id == resolve_session(session, env)
        IN  IF ~session_id.some \/ ~session_exists(test_mode, session_id.val, spawned)
            THEN RunFail /\ UNCHANGED <<marker_id, panevars, loopvars>>
            ELSE /\ marker_id' = id
                 /\ IF sent = "ok"
                    THEN /\ screen' = screen \o build_shell_command(command, id) \o <<"\n">>
                         /\ cmd_pc' = "typed"
                         /\ r_pc' = "sleep"
                         /\ start_time' = now
                         /\ last_output_time' = now
                         /\ last_output_len' = 0
                         /\ UNCHANGED <<cmd_printed, pane_content, endvars>>
                    ELSE RunFail /\ UNCHANGED <<panevars, loopvars>>
    /\ UNCHANGED <<mvars, tvars, fvars, cfgvars, now>>

\* std::thread::sleep(poll_interval)
Sleep ==
    /\ r_pc = "sleep"
    /\ \E d \in 1..MaxSleepTicks : now' = now + d
    /\ r_pc' = "check_max"
    /\ UNCHANGED <<mvars, tvars, fvars, marker_id, cfgvars, panevars, loopvars, endvars>>

\* the kill key sent only when the interrupt key could not be
KillRunningCommand_Fallback(ok1, ok2) ==
    /\ keys' = keys \o << [key |-> "C-c", at |-> now, ok |-> ok1] >>
                    \o (IF ok1 THEN << >>
                        ELSE << [key |-> "C-\\", at |-> now + KillGraceSecs * TicksPerSec,
                                 ok |-> ok2] >>)
    /\ now' = now + KillGraceSecs * TicksPerSec

\* kill_running_command: C-c, three seconds of grace, C-\; the results of the
\* two send-keys calls are dropped
KillRunningCommand(ok1, ok2) ==
    /\ keys' = keys \o << [key |-> "C-c", at |-> now, ok |-> ok1],
                          [key |-> "C-\\", at |-> now + KillGraceSecs * TicksPerSec,
                           ok |-> ok2] >>
    /\ now' = now + KillGraceSecs * TicksPerSec

\* the max-time check at the top of every iteration
CheckMaxTime ==
    /\ r_pc = "check_max"
    /\ IF MaxTimeExceeded
       THEN /\ \E ok1 \in BOOLEAN, ok2 \in BOOLEAN : KillRunningCommand(ok1, ok2)
            /\ outcome' = "TimedOutTotal"
            /\ exit_status' = Some(ExitStatus(TimeoutStatus))
            /\ r_pc' = "done"
            /\ UNCHANGED <<exit_code, stdout>>
       ELSE /\ r_pc' = "capture"
            /\ UNCHANGED <<now, endvars>>
    /\ UNCHANGED <<mvars, tvars, fvars, marker_id, cfgvars, panevars, loopvars>>

\* tmux capture-pane -p -S -32768: an error when tmux cannot be spawned; the
\* exit status of tmux is not looked at, its standard output is the text
CapturePane ==
    /\ r_pc = "capture"
    /\ \E res \in {"ok", "failed", "spawn_error"} :
        IF res = "spawn_error"
        THEN RunFail /\ UNCHANGED pane_content
        ELSE /\ pane_content' = IF res = "ok" THEN screen ELSE <<>>
             /\ r_pc' = "examine"
             /\ UNCHANGED endvars
    /\ UNCHANGED <<mvars, tvars, fvars, marker_id, cfgvars, panevars, now, start_time,
                   last_output_time, last_output_len>>

\* a probe that takes every poll for new output
OutputChanged_Always == TRUE

\* pane_content.len() != last_output_len
OutputChanged == Len(pane_content) # last_output_len

\* the rest of the iteration: the end marker, then the length probe, then
\* the no-output timeout
Examine ==
    /\ r_pc = "examine"
    /\ LET found == find_exit_code(pane_content, end_marker_prefix(marker_id))
           changed == OutputChanged
           seen_at == IF changed THEN now ELSE last_output_time
       IN  IF found.some
           THEN /\ \E first \in {0, 1, 50}, last \in {0, 1, 50} :
                    stdout' = print_output(
                        extract_output(pane_content, start_marker(marker_id),
                                       end_marker_prefix(marker_id)), first, last)
                /\ exit_code' = found
                /\ outcome' = "Completed"
                /\ exit_status' = IF found.val # 0 THEN Some(ExitStatus(found.val))
                                  ELSE Some(0)
                /\ r_pc' = "done"
                /\ UNCHANGED <<keys, now, last_output_time, last_output_len>>
           ELSE /\ last_output_len' = Len(pane_content)
                /\ last_output_time' = seen_at
                /\ IF NoOutputExceeded(seen_at)
                   THEN /\ \E ok1 \in BOOLEAN, ok2 \in BOOLEAN :
                               KillRunningCommand(ok1, ok2)
                        /\ outcome' = "TimedOutIdle"
                        /\ exit_status' = Some(ExitStatus(TimeoutStatus))
                        /\ r_pc' = "done"
                        /\ UNCHANGED <<exit_code, stdout>>
                   ELSE /\ r_pc' = "sleep"
                        /\ UNCHANGED <<now, endvars>>
    /\ UNCHANGED <<mvars, tvars, fvars, marker_id, cfgvars, panevars, start_time, pane_content>>

Polling == r_pc \in {"sleep", "check_max", "capture", "examine"}

\* the pane's shell starts the injected line: echo of the start sentinel
ShellStart ==
    /\ Polling /\ cmd_pc = "typed"
    /\ screen' = screen \o start_marker(marker_id) \o <<"\n">>
    /\ cmd_pc' = "started"
    /\ UNCHANGED <<mvars, tvars, fvars, marker_id, cfgvars, cmd_printed, r_pc, now, loopvars, endvars>>

\* the target command prints its next chunk
CmdPrint ==
    /\ Polling /\ cmd_pc = "started" /\ cmd_printed < Len(cmd_out)
    /\ screen' = screen \o cmd_out[cmd_printed + 1]
    /\ cmd_printed' = cmd_printed + 1
    /\ UNCHANGED <<mvars, tvars, fvars, marker_id, cfgvars, cmd_pc, r_pc, now, loopvars, endvars>>

\* the target command ends: echo of the end sentinel with $? substituted,
\* then the shell's prompt
CmdExit ==
    /\ Polling /\ cmd_pc = "started" /\ cmd_printed = Len(cmd_out)
    /\ screen' = screen \o EndLine(marker_id, cmd_code) \o <<"\n">> \o PromptLine
    /\ cmd_pc' = "exited"
    /\ UNCHANGED <<mvars, tvars, fvars, marker_id, cfgvars, cmd_printed, r_pc, now, loopvars, endvars>>

RunStep == RunStart \/ Sleep \/ CheckMaxTime \/ CapturePane \/ Examine
PaneStep == ShellStart \/ CmdPrint \/ CmdExit

NextRun == RunStep \/ PaneStep

SpecRun == InitRun /\ [][NextRun]_vars

\* every exit status a command can end with, under --timeout 0: the first
\* poll either finds the end sentinel or times out
InitExit == InitRunWith({0}, {0, 1}, {<<>>, << <<"a", "\n">> >>}, ExitCodes)

SpecExit == InitExit /\ [][NextRun]_vars

\* the scheduler runs the tb process: a step of cmd_run that is possible is
\* eventually taken; the pane's shell and the target command may stall
SpecRunFair == InitRun /\ [][NextRun]_vars /\ WF_vars(RunStep)

TimedOut == outcome \in {"TimedOutIdle", "TimedOutTotal"}

\* the two control keys, interrupt first
InterruptThenKill ==
    /\ Len(keys) = 2
    /\ keys[1].key = "C-c" /\ keys[2].key = "C-\\"
    /\ keys[2].at = keys[1].at + KillGraceSecs * TicksPerSec

-----------------------------------------------------------------------------
(* Exit status of tb run *)

\* C1: whenever run ends Completed(c), c is the status the target command
\* ended with and the exit status of the tb process is c (0 when c = 0).
C1_ExitPassthrough ==
    outcome = "Completed" =>
        /\ exit_code = Some(cmd_code)
        /\ exit_status = Some(cmd_code)
        /\ keys = <<>>

\* a completed run of a command that ended with the largest status
C1_Witness ==
    /\ outcome = "Completed" /\ cmd_code = 255 /\ exit_status = Some(255)
    /\ cmd_out # <<>>

\* C2 as stated: the three classes never share an exit status; 124 only from
\* a timeout, 1 never from a completed command.
C2_ClassesNeverCollide ==
    /\ (exit_status = Some(TimeoutStatus) => TimedOut)
    /\ (exit_status = Some(FailureStatus) => outcome = "Failed")

\* C2 amended: a timeout always exits 124, a tool or setup failure always
\* exits 1, a completed command exits with its own code; so 124 comes from a
\* timeout or from a command that itself ended with 124, and 1 from a failure
\* or from a command that itself ended with 1.
C2_ClassesUpToPassthrough ==
    /\ (TimedOut => exit_status = Some(TimeoutStatus))
    /\ (outcome = "Failed" => exit_status = Some(FailureStatus))
    /\ (outcome = "Completed" => exit_status = Some(cmd_code))
    /\ (exit_status = Some(TimeoutStatus) =>
            TimedOut \/ (outcome = "Completed" /\ cmd_code = TimeoutStatus))
    /\ (exit_status = Some(FailureStatus) =>
            outcome = "Failed" \/ (outcome = "Completed" /\ cmd_code = FailureStatus))
    /\ (exit_status = Some(0) => outcome = "Completed" /\ cmd_code = 0)

\* a command that itself ends with 124: its run completes with the status a
\* timeout has
C2_Witness ==
    outcome = "Completed" /\ cmd_code = TimeoutStatus /\ exit_status = Some(TimeoutStatus)

-----------------------------------------------------------------------------
(* Timeouts of tb run *)

\* the poll found no end sentinel and a text of the length seen before, and
\* --timeout seconds have passed since the length last changed
IdleExpired ==
    /\ r_pc = "examine"
    /\ ~find_exit_code(pane_content, end_marker_prefix(marker_id)).some
    /\ Len(pane_content) = last_output_len
    /\ ElapsedSecs(last_output_time) >= timeout

EndedIdle ==
    /\ outcome = "TimedOutIdle"
    /\ exit_status = Some(TimeoutStatus)
    /\ InterruptThenKill

\* C4: a poll at which the captured length has been the same for at least
\* --timeout seconds, with no end sentinel, ends the run TimedOutIdle with
\* status 124 after the interrupt and the kill key, whatever --max-time is:
\* the step cmd_run takes from such a poll is the idle timeout.
C4_IdleTimeout ==
    [][(IdleExpired /\ r_pc' # r_pc) => EndedIdle']_vars

\* an idle timeout that fired before --max-time seconds had passed
C4_Witness ==
    /\ EndedIdle
    /\ timeout >= 1
    /\ (keys[1].at - start_time) \div TicksPerSec < max_time
    /\ (keys[1].at - last_output_time) \div TicksPerSec >= timeout

\* the check at the top of an iteration, --max-time seconds after injection
MaxExpired ==
    /\ r_pc = "check_max"
    /\ ElapsedSecs(start_time) >= max_time

EndedTotal ==
    /\ outcome = "TimedOutTotal"
    /\ exit_status = Some(TimeoutStatus)
    /\ InterruptThenKill

\* C5: in every iteration, once --max-time seconds have passed since the
\* injection the run ends TimedOutTotal with status 124, however recently the
\* idle timer was reset: the step cmd_run takes from the check at the top of
\* such an iteration is the overall timeout.
C5_OverallTimeout ==
    [][(MaxExpired /\ r_pc' # r_pc) => EndedTotal']_vars

\* an overall timeout while the command was still printing: the idle timer
\* was reset after the injection and had not run out
C5_Witness ==
    /\ EndedTotal
    /\ cmd_pc = "started" /\ cmd_printed >= 1
    /\ last_output_time > start_time
    /\ (keys[1].at - last_output_time) \div TicksPerSec < timeout

-----------------------------------------------------------------------------
(* The task pane allocator and the pane registry: cmd_launch, cmd_done *)

\* `if task_count >= 6`
MaxTasks == 6
\* `if task_count < 3`: the tasks that split the main pane
TopRowTasks == 3

\* launch is not modelled beyond this many panes split off in all
MaxCreated == 7

\* done is not modelled once this many panes have been closed
MaxClosed == 2

\* tmux calls are not made to fail more often than this in one history
MaxFaults == 1

\* the calls of one handler that fail
Failed(calls) == Cardinality({i \in 1..Len(calls) : ~calls[i]})

\* ids counted from the number of task panes, not from one more
TaskId_FromCount(n) == "t" \o ToString(n - 1)

\* format!("t{}", n)
TaskId(n) == "t" \o ToString(n)

\* the task arguments given to done
TaskArgs == {TaskId(n) : n \in 1..MaxTasks} \cup {"", "t9"}

\* counting the panes that carry a task tag
count_task_panes_Tagged(listed) ==
    IF listed THEN Cardinality({i \in 1..Len(panes) : panes[i].tag # ""}) ELSE 0

\* counting every pane that was ever split off, closed or not
count_task_panes_Created(listed) == IF listed THEN created ELSE 0

\* count_task_panes: the panes listed minus one; 0 when the listing fails
count_task_panes(listed) ==
    IF listed THEN (IF Len(panes) >= 1 THEN Len(panes) - 1 ELSE 0) ELSE 0

\* tmux split-window -b: the new pane takes the target's index
InsertBefore(ps, index, p) == SubSeq(ps, 1, index) \o <<p>> \o SubSeq(ps, index + 1, Len(ps))
\* tmux split-window -h: the new pane follows the target
InsertAfter(ps, index, p) ==
    SubSeq(ps, 1, index + 1) \o <<p>> \o SubSeq(ps, index + 2, Len(ps))

\* tmux set-option -p @tb_task on the pane with this id
SetTag(ps, id, tag) ==
    [i \in 1..Len(ps) |-> IF ps[i].id = id THEN [ps[i] EXCEPT !.tag = tag] ELSE ps[i]]

\* tmux kill-pane
RemovePane(ps, id) ==
    LET i == CHOOSE k \in 1..Len(ps) : ps[k].id = id
    IN  SubSeq(ps, 1, i - 1) \o SubSeq(ps, i + 1, Len(ps))

\* find_task_pane: the first listed pane whose @tb_task equals the argument
find_task_pane(task) ==
    LET hits == {i \in 1..Len(panes) : panes[i].tag = task}
    IN  IF hits = {} THEN None
        ELSE Some(panes[CHOOSE i \in hits : \A j \in hits : i <= j].id)

\* the session of the task panes
InitTasks ==
    /\ MarkerIdle
    /\ marker_id = <<>>
    /\ timeout = 0 /\ max_time = 0 /\ command = <<>> /\ cmd_out = <<>> /\ cmd_code = 0
    /\ sessions = {"tb-s1"}
    /\ screen = <<>> /\ cmd_pc = "none" /\ cmd_printed = 0
    /\ r_pc = "idle" /\ now = 0 /\ start_time = 0 /\ last_output_time = 0
    /\ last_output_len = 0 /\ pane_content = <<>> /\ keys = <<>> /\ outcome = "none"
    /\ exit_code = None /\ exit_status = None /\ stdout = <<>>
    /\ panes = << [id |-> 0, tag |-> ""] >>
    /\ created = 0
    /\ t_result = [op |-> "none"]
    /\ max_issued = 0
    /\ streak = 0
    /\ faults = 0
    /\ active = 0
    /\ launches = <<>>
    /\ FnIdle

\* what a handler reports: Err(message) makes main exit 1
Report(op, ok, task, err, target, calls) ==
    [op |-> op, ok |-> ok, task |-> task, err |-> err,
     status |-> IF ok THEN 0 ELSE FailureStatus,
     \* the pane the handler split, captured or killed, and the tmux calls it
     \* made that change the session
     target |-> target, calls |-> calls]

\* no pane
NoPane == 0 - 1

\* the handlers are separate processes run one after the other: none starts
\* while a `tb run` is between its injection and its end
NoRunInProgress == r_pc \in {"idle", "init", "done"}

\* the first two steps of both handlers: resolve_session, then session_exists
SessionCheck(session, env, test_mode, spawned) ==
    LET session_id == resolve_session(session, env)
    IN  IF ~session_id.some THEN "NoSessionSpecified"
        ELSE IF ~session_exists(test_mode, session_id.val, spawned) THEN "SessionNotFound"
        ELSE "ok"

\* what those steps can come to over the session arguments and environments
SessionChecks ==
    {SessionCheck(session, env, test_mode, spawned) :
        session \in SessionArgs, env \in SessionEnvs,
        test_mode \in BOOLEAN, spawned \in BOOLEAN}

\* the focus after split-window -d: where it was
SplitFocus(focus, new_id) == focus

\* the focus after kill-pane: where it was, or on one of the panes left (the
\* one tmux picks) when the pane killed had it
KillFocus(ps, focus, id) ==
    IF id # focus THEN {focus}
    ELSE IF Len(ps) = 1 THEN {NoPane}
    ELSE {ps[i].id : i \in {k \in 1..Len(ps) : ps[k].id # id}}

\* cmd_launch, from the session check to the tag. The inputs say which of the
\* tmux calls it makes succeed.
Launch ==
    /\ NoRunInProgress /\ m_pc = "idle"
    /\ created < MaxCreated
    /\ \E checked \in SessionChecks, listed \in BOOLEAN, split \in BOOLEAN,
          sent \in BOOLEAN, tagged \in BOOLEAN :
        LET clean == checked = "ok" /\ listed /\ split /\ sent /\ tagged
            failed == Failed(<<listed, split, sent, tagged>>)
            task_count == count_task_panes(listed)
            task_id == TaskId(task_count + 1)
            index == IF task_count < TopRowTasks THEN task_count
                     ELSE task_count - TopRowTasks
            new == [id |-> created + 1, tag |-> ""]
            split_ok == split /\ index < Len(panes)
            target == IF index < Len(panes) THEN panes[index + 1].id ELSE NoPane
            split_call == IF task_count < TopRowTasks THEN "split-window -b"
                          ELSE "split-window -h"
            after_split == IF task_count < TopRowTasks
                           THEN InsertBefore(panes, index, new)
                           ELSE InsertAfter(panes, index, new)
        IN  /\ faults + failed <= MaxFaults
            /\ faults' = faults + failed
            /\ streak' = IF streak \in 0..(MaxTasks - 1) /\ clean THEN streak + 1 ELSE 0 - 1
            /\ IF checked # "ok"
               THEN /\ t_result' = Report("launch", FALSE, "", checked, NoPane, <<>>)
                    /\ UNCHANGED <<panes, created, max_issued, active>>
               ELSE IF task_count >= MaxTasks
               THEN /\ t_result' = Report("launch", FALSE, "", "TooManyTasks", NoPane, <<>>)
                    /\ UNCHANGED <<panes, created, max_issued, active>>
               ELSE IF ~split_ok
               THEN /\ t_result' = Report("launch", FALSE, "", "SplitFailed", target, <<split_call>>)
                    /\ UNCHANGED <<panes, created, max_issued, active>>
               ELSE IF ~sent
               THEN /\ t_result' = Report("launch", FALSE, "", "SendFailed", target,
                                        <<split_call, "send-keys">>)
                    /\ panes' = after_split
                    /\ created' = created + 1
                    /\ active' = SplitFocus(active, new.id)
                    /\ UNCHANGED max_issued
               ELSE /\ t_result' = Report("launch", TRUE, task_id, "", target,
                                        <<split_call, "send-keys", "set-option">>)
                    /\ panes' = IF tagged THEN SetTag(after_split, new.id, task_id)
                                ELSE after_split
                    /\ created' = created + 1
                    /\ active' = SplitFocus(active, new.id)
                    /\ max_issued' = IF task_count + 1 > max_issued THEN task_count + 1
                                     ELSE max_issued
    /\ UNCHANGED <<mvars, marker_id, rvars, fvars, launches>>

\* cmd_done: find the pane tagged with the task and kill it
Done ==
    /\ NoRunInProgress /\ m_pc = "idle"
    /\ (created + 1) - Len(panes) < MaxClosed
    /\ \E task \in TaskArgs, checked \in SessionChecks, listed \in BOOLEAN,
          killed \in BOOLEAN :
        LET pane_id == find_task_pane(task)
        IN  /\ faults + Failed(<<listed, killed>>) <= MaxFaults
            /\ faults' = faults + Failed(<<listed, killed>>)
            /\ streak' = 0 - 1
            /\ UNCHANGED <<created, max_issued>>
            /\ IF checked # "ok"
               THEN /\ t_result' = Report("done", FALSE, "", checked, NoPane, <<>>)
                    /\ UNCHANGED <<panes, sessions, active>>
               ELSE IF ~listed
               THEN /\ t_result' = Report("done", FALSE, task, "ListFailed", NoPane, <<>>)
                    /\ UNCHANGED <<panes, sessions, active>>
               ELSE IF ~pane_id.some
               THEN /\ t_result' = Report("done", FALSE, task, "TaskNotFound", NoPane, <<>>)
                    /\ UNCHANGED <<panes, sessions, active>>
               ELSE IF ~killed
               THEN /\ t_result' = Report("done", FALSE, task, "KillFailed", pane_id.val, <<"kill-pane">>)
                    /\ UNCHANGED <<panes, sessions, active>>
               ELSE /\ t_result' = Report("done", TRUE, task, "", pane_id.val, <<"kill-pane">>)
                    /\ panes' = RemovePane(panes, pane_id.val)
                    /\ active' \in KillFocus(panes, active, pane_id.val)
                    \* tmux ends a session with its last pane
                    /\ sessions' = IF Len(panes) = 1 THEN {} ELSE sessions
    /\ UNCHANGED <<mvars, marker_id, fvars, timeout, max_time, command, cmd_out, cmd_code,
                   screen, cmd_pc, cmd_printed, r_pc, now, start_time, last_output_time,
                   last_output_len, pane_content, keys, outcome, exit_code, exit_status,
                   stdout, launches>>

\* cmd_check: find the pane tagged with the task, capture it and print it
Check ==
    /\ NoRunInProgress /\ m_pc = "idle"
    /\ \E task \in TaskArgs, checked \in SessionChecks, listed \in BOOLEAN,
          captured \in BOOLEAN :
        LET pane_id == find_task_pane(task)
        IN  /\ faults + Failed(<<listed, captured>>) <= MaxFaults
            /\ faults' = faults + Failed(<<listed, captured>>)
            /\ streak' = 0 - 1
            /\ t_result' =
                   IF checked # "ok" THEN Report("check", FALSE, "", checked, NoPane, <<>>)
                   ELSE IF ~listed THEN Report("check", FALSE, task, "ListFailed", NoPane, <<>>)
                   ELSE IF ~pane_id.some
                   THEN Report("check", FALSE, task, "TaskNotFound", NoPane, <<>>)
                   ELSE IF ~captured
                   THEN Report("check", FALSE, task, "CaptureFailed", pane_id.val, <<>>)
                   ELSE Report("check", TRUE, task, "", pane_id.val, <<>>)
    /\ UNCHANGED <<mvars, marker_id, rvars, fvars, panes, created, max_issued, active, launches>>

Next == Launch \/ Done \/ Check

Spec == InitTasks /\ [][Next]_vars

-----------------------------------------------------------------------------
(* Claims about the task pane allocator *)

\* the panes that launch split off: every pane but the session's first
TaskPanes == {i \in 1..Len(panes) : panes[i].id # 0}

\* the session's first pane has not been closed
MainAlive == \E i \in 1..Len(panes) : panes[i].id = 0

\* the step is a launch that got past the session check
LaunchStep ==
    /\ t_result'.op = "launch"
    /\ t_result'.err \notin {"NoSessionSpecified", "SessionNotFound"}

\* C6: a launch on a resolved, existing session that holds 6 task panes fails
\* with TooManyTasks and exit status 1, and leaves the panes and their tags
\* as they were.
C6_FullSessionRejects ==
    [][(Cardinality(TaskPanes) = MaxTasks /\ LaunchStep)
        => (/\ t_result'.err = "TooManyTasks"
            /\ t_result'.status = FailureStatus
            /\ panes' = panes)]_vars

\* the ids that six launches in a row are to return
SixIds == <<"t1", "t2", "t3", "t4", "t5", "t6">>

\* C7: from a session with only its main pane, the k-th of six launches in a
\* row (the session resolved and every tmux call succeeding) succeeds, returns
\* t{k}, and leaves the session with k panes more than the main pane.
C7_SixLaunches ==
    streak \in 1..MaxTasks =>
        /\ t_result.op = "launch" /\ t_result.ok
        /\ t_result.task = SixIds[streak]
        /\ Len(panes) = streak + 1
        /\ created = streak

C7_Witness ==
    /\ streak = MaxTasks
    /\ t_result.task = "t6"
    /\ Len(panes) = MaxTasks + 1

\* a done that has just closed one of the tasks of a session that had 7 panes
ClosedOneOfSix ==
    /\ t_result.op = "done" /\ t_result.ok
    /\ t_result.task \in {SixIds[k] : k \in 1..MaxTasks}
    /\ Len(panes) = MaxTasks

\* C8: when done has closed a task of a session at capacity, the launch that
\* follows it (the session resolved and every tmux call succeeding) succeeds
\* and the session has 7 panes again.
C8_LaunchAfterDone ==
    [][(ClosedOneOfSix /\ LaunchStep /\ faults' = faults)
        => (t_result'.ok /\ Len(panes') = MaxTasks + 1 /\ created' = created + 1)]_vars

\* six launches, the done of a task other than t6, a seventh launch: the
\* session has six task panes again, two of them tagged t6
C8_Witness ==
    /\ t_result.op = "launch" /\ t_result.ok
    /\ faults = 0
    /\ created = MaxTasks + 1
    /\ Cardinality(TaskPanes) = MaxTasks /\ Len(panes) = MaxTasks + 1
    /\ Cardinality({i \in TaskPanes : panes[i].tag = "t6"}) = 2

\* C9: the number in the id of a successful launch is greater than the number
\* in every id issued before it in the session, also when every tmux call
\* there has been has succeeded and the main pane is still there.
C9_IdsIncrease ==
    [][(LaunchStep /\ t_result'.ok /\ created' # created /\ faults' = 0 /\ MainAlive)
        => max_issued' > max_issued]_vars

\* C10: no two live panes carry the same task id as their tag, also when
\* every tmux call there has been has succeeded and the main pane is still
\* there.
C10_OnePanePerId ==
    (faults = 0 /\ MainAlive) =>
        \A i, j \in 1..Len(panes) :
            (i # j /\ panes[i].tag # "") => panes[i].tag # panes[j].tag

\* the pane carries the task id as its @tb_task; the main pane carries none
Tagged(p, task) == task # "" /\ p.tag = task

\* the panes without the one at position i
Without(ps, i) == SubSeq(ps, 1, i - 1) \o SubSeq(ps, i + 1, Len(ps))

\* the pane with this id
PaneOf(id) == panes[CHOOSE i \in 1..Len(panes) : panes[i].id = id]

\* C11: in six launches in a row from the main-pane-only session, the panes
\* of tasks 4, 5 and 6 come from a left-right split of the panes of tasks 1,
\* 2 and 3, and the session ends with 7 panes.
C11_SplitsOfFirstRow ==
    streak \in (TopRowTasks + 1)..MaxTasks =>
        /\ t_result.calls[1] = "split-window -h"
        /\ t_result.target # NoPane
        /\ PaneOf(t_result.target).tag = SixIds[streak - TopRowTasks]
        /\ (streak = MaxTasks => Len(panes) = MaxTasks + 1)

\* C12: a successful launch that finds fewer than 3 task panes splits the
\* session's first pane, which is the last in index order, and puts the new
\* pane before it.
C12_SplitsMain ==
    [][(/\ LaunchStep /\ t_result'.ok /\ created' # created /\ faults' = 0
        /\ Cardinality(TaskPanes) < TopRowTasks)
        => (/\ t_result'.target = 0
            /\ panes[Len(panes)].id = 0
            /\ t_result'.calls[1] = "split-window -b")]_vars

\* the step is a done that got past the session check and whose tmux calls
\* all succeeded
DoneStep ==
    /\ t_result'.op = "done"
    /\ t_result'.err \notin {"NoSessionSpecified", "SessionNotFound"}
    /\ faults' = faults

\* C13: done T closes exactly one pane, tagged T, and leaves the others as
\* they were when a pane is tagged T; it fails with status 1 and leaves the
\* session as it was when none is.
C13_DoneClosesOne ==
    [][DoneStep =>
        LET task == t_result'.task
            tagged == {i \in 1..Len(panes) : Tagged(panes[i], task)}
        IN  IF tagged # {}
            THEN /\ t_result'.ok
                 /\ \E i \in tagged : panes' = Without(panes, i)
            ELSE /\ ~t_result'.ok
                 /\ t_result'.status = FailureStatus
                 /\ panes' = panes]_vars

\* C14: a done T that directly follows a successful done T fails with the
\* not-found error and closes no pane.
C14_SecondDoneFails ==
    [][(/\ t_result.op = "done" /\ t_result.ok
        /\ DoneStep /\ t_result'.task = t_result.task)
        => (/\ ~t_result'.ok
            /\ t_result'.err = "TaskNotFound"
            /\ panes' = panes)]_vars

\* C15: on the panes as listed, find returns a pane tagged with the task
\* when there is one, and TaskNotFound exactly when there is none.
C15_FindByTag ==
    \A task \in TaskArgs :
        LET found == find_task_pane(task)
            tagged == {i \in 1..Len(panes) : Tagged(panes[i], task)}
        IN  /\ tagged # {} => (found.some /\ Tagged(PaneOf(found.val), task))
            /\ tagged = {} <=> ~found.some

-----------------------------------------------------------------------------
(* resolve_session on its own *)

\* the session ids given with --session or found in TB_SESSION
ResolveIds == {"", "s1", "zz", "a", "b", "tb", "x y"}
ResolveOptions == {None} \cup {Some(id) : id \in ResolveIds}

\* everything but the function call at rest
AllIdle ==
    /\ MarkerIdle
    /\ RunIdle
    /\ TasksIdle
    /\ marker_id = <<>>

InitResolve ==
    /\ AllIdle
    /\ f_pc = "called"
    /\ f_in \in [session : ResolveOptions, env : ResolveOptions]
    /\ f_out = <<>>

\* let session_id = resolve_session(session)
Resolve ==
    /\ f_pc = "called"
    /\ f_pc' = "returned"
    /\ f_out' = resolve_session(f_in.session, f_in.env)
    /\ UNCHANGED <<mvars, marker_id, rvars, tvars, f_in>>

NextResolve == Resolve

SpecResolve == InitResolve /\ [][NextResolve]_vars

\* the option holds an id, and not the empty one
Present(option) == option.some /\ option.val # ""

\* C16: resolution returns the explicit id when it is given, else the
\* environment value when that is not empty, and fails when both are absent
\* or empty.
C16_Resolution ==
    f_pc = "returned" =>
        /\ Present(f_in.session) => f_out = Some(f_in.session.val)
        /\ (~f_in.session.some /\ Present(f_in.env)) => f_out = Some(f_in.env.val)
        /\ (~Present(f_in.session) /\ ~Present(f_in.env)) => f_out = None

-----------------------------------------------------------------------------
(* The four handlers on a session that may not be there *)

\* the session after launches t1..t6 and `done t6`
EntryPanes ==
    << [id |-> 1, tag |-> "t1"], [id |-> 4, tag |-> "t4"], [id |-> 5, tag |-> "t5"],
       [id |-> 2, tag |-> "t2"], [id |-> 3, tag |-> "t3"], [id |-> 0, tag |-> ""] >>

\* the tmux server has the session s1 with these panes, or no session at all;
\* max_times are the values of --max-time, fault_count is what is spent of the
\* budget of failing tmux calls
InitEntryWith(max_times, fault_count) ==
    /\ MarkerIdle
    /\ FnIdle
    /\ marker_id = <<>>
    /\ timeout = 0 /\ max_time \in max_times
    /\ command \in RunCommands
    /\ cmd_out = << <<"a", "\n">> >>
    /\ cmd_code \in RunCodes
    /\ sessions \in {{}, {"tb-s1"}}
    /\ screen = PromptLine /\ cmd_pc = "none" /\ cmd_printed = 0
    /\ r_pc = "init" /\ now = 0 /\ start_time = 0 /\ last_output_time = 0
    /\ last_output_len = 0 /\ pane_content = <<>> /\ keys = <<>> /\ outcome = "none"
    /\ exit_code = None /\ exit_status = None /\ stdout = <<>>
    /\ panes = IF sessions = {} THEN <<>> ELSE EntryPanes
    /\ created = MaxTasks
    /\ t_result = [op |-> "none"]
    /\ max_issued = MaxTasks
    /\ streak = 0 - 1
    /\ faults = fault_count
    /\ active = IF sessions = {} THEN NoPane ELSE 0
    /\ launches = <<>>

InitEntry == InitEntryWith({1}, 0)

TaskStep == Launch \/ Done \/ Check

\* of cmd_run only the entry, up to the injection: the poll loop that follows
\* is the subject of SpecRun
NextEntry == RunStart \/ TaskStep

SpecEntry == InitEntry /\ [][NextEntry]_vars

\* a launch, check or done has just reported
HandlerStep == t_result' # t_result

\* cmd_run has just returned an error before it generated a marker
RunEntryFailed == r_pc = "init" /\ r_pc' = "done" /\ marker_id' = <<>>

\* the step left the session and its panes alone
NothingIssued ==
    /\ panes' = panes
    /\ sessions' = sessions
    /\ screen' = screen
    /\ keys' = keys

\* C17: a handler that does not find the session fails with status 1 and
\* makes no tmux call that changes anything; with no live session every
\* handler ends that way.
C17_NotFoundIsInert ==
    [][/\ (HandlerStep /\ t_result'.err = "SessionNotFound")
            => (/\ t_result'.status = FailureStatus
                /\ t_result'.calls = <<>>
                /\ NothingIssued)
       /\ RunEntryFailed
            => (/\ outcome' = "Failed"
                /\ exit_status' = Some(FailureStatus)
                /\ NothingIssued)
       /\ (sessions = {} /\ HandlerStep)
            => t_result'.err \in {"SessionNotFound", "NoSessionSpecified"}
       /\ (sessions = {} /\ r_pc = "init" /\ r_pc' # r_pc) => RunEntryFailed]_vars

\* run, and then a task handler, did not find a session next to the live s1
C17_Witness ==
    /\ sessions = {"tb-s1"}
    /\ outcome = "Failed" /\ marker_id = <<>> /\ exit_status = Some(FailureStatus)
    /\ t_result.op \in {"launch", "check", "done"}
    /\ t_result.err = "SessionNotFound"
    /\ screen = PromptLine
    /\ panes = EntryPanes

-----------------------------------------------------------------------------
(* print_output on its own, with the arithmetic of usize *)

\* usize::MAX of the model
UsizeMax == 1000000

\* usize::wrapping_add, usize::wrapping_sub: `+` and `-` without overflow checks
wrapping_add(a, b) == IF a + b > UsizeMax THEN (a + b) - (UsizeMax + 1) ELSE a + b
wrapping_sub(a, b) == IF a < b THEN (a + UsizeMax + 1) - b ELSE a - b

\* the notice between the two parts of a truncated text
TruncationNotice(n) ==
    <<"\n", ".", ".", ".", " ", "(">> \o ToDigits(n)
    \o <<" ", "l", "i", "n", "e", "s", " ", "t", "r", "u", "n", "c", "a", "t", "e",
         "d", ")", " ", ".", ".", ".", "\n">> \o <<"\n">>

\* print_output as built: with overflow checks (debug profile) `first + last`
\* panics when it exceeds usize::MAX; without them (release profile) it wraps,
\* and so do the subtractions that follow
print_output_built(output, first, last, overflow_checks) ==
    LET lines == Lines(output)
        total == Len(lines)
        shown == IF first < total THEN first ELSE total
        skipped == wrapping_sub(total, last)
    IN  IF first + last <= UsizeMax
        THEN [panicked |-> FALSE, text |-> print_output(output, first, last)]
        ELSE IF overflow_checks
        THEN [panicked |-> TRUE, text |-> <<>>]
        ELSE IF total <= wrapping_add(first, last)
        THEN [panicked |-> FALSE, text |-> output \o <<"\n">>]
        ELSE [panicked |-> FALSE,
              text |-> PrintLines(SubSeq(lines, 1, shown))
                       \o TruncationNotice(wrapping_sub(wrapping_sub(total, first), last))
                       \o PrintLines(SubSeq(lines, skipped + 1, total))]

MaxPrintLines == 3
\* the texts printed: up to MaxPrintLines lines, the last one with or without
\* its line feed
PrintTexts ==
    LET texts == {Join(ls, <<"\n">>) : ls \in SeqsUpTo({<<"a">>, <<"b", "c">>}, MaxPrintLines)}
    IN  texts \cup {t \o <<"\n">> : t \in texts}
\* --first and --last
PrintCounts == {0, 1, 2, UsizeMax}

InitPrint ==
    /\ AllIdle
    /\ f_pc = "called"
    /\ f_in \in [output : PrintTexts, first : PrintCounts, last : PrintCounts,
                 overflow_checks : BOOLEAN]
    /\ f_out = <<>>

\* print_output(&output, first, last)
PrintOutput ==
    /\ f_pc = "called"
    /\ f_pc' = "returned"
    /\ f_out' = print_output_built(f_in.output, f_in.first, f_in.last, f_in.overflow_checks)
    /\ UNCHANGED <<mvars, marker_id, rvars, tvars, f_in>>

NextPrint == PrintOutput

SpecPrint == InitPrint /\ [][NextPrint]_vars

\* what the truncation rule asks for
Truncated(output, first, last) ==
    LET lines == Lines(output)
        total == Len(lines)
    IN  IF total <= first + last THEN output \o <<"\n">>
        ELSE PrintLines(SubSeq(lines, 1, first))
             \o TruncationNotice(total - first - last)
             \o PrintLines(SubSeq(lines, total - last + 1, total))

\* C18: the text is printed as it is when it has at most first + last lines;
\* otherwise its first `first` lines, one notice of total - first - last
\* truncated lines and its last `last` lines are printed.
C18_Truncation ==
    f_pc = "returned" =>
        /\ ~f_out.panicked
        /\ f_out.text = Truncated(f_in.output, f_in.first, f_in.last)

-----------------------------------------------------------------------------
(* The injected lines as a POSIX shell reads them *)

\* the word being read, added to the words when one is being read
Flush(st) == IF st.inword THEN Append(st.words, st.word) ELSE st.words

\* the character c taken into the word being read, the reader then in mode
Take(st, c, mode) == [st EXCEPT !.word = Append(@, c), !.inword = TRUE, !.mode = mode]

\* sh reading one character. Outside quotes a backslash quotes the next
\* character, a blank ends a word and an operator character (; | &) or a line
\* feed ends a command; between single
\* quotes every character stands for itself; between double quotes a
\* backslash quotes the next character only if that is $, grave accent,
\* double quote or backslash, and stays in the word otherwise.
sh_step(st, c) ==
    CASE st.mode = "single" ->
            IF c = "'" THEN [st EXCEPT !.mode = "plain"] ELSE Take(st, c, "single")
      [] st.mode = "double" ->
            IF c = "\"" THEN [st EXCEPT !.mode = "plain"]
            ELSE IF c = "\\" THEN [st EXCEPT !.mode = "double_escape"]
            ELSE Take(st, c, "double")
      [] st.mode = "double_escape" ->
            IF c \in {"$", Backtick, "\"", "\\"} THEN Take(st, c, "double")
            ELSE Take(Take(st, "\\", "double"), c, "double")
      [] st.mode = "plain_escape" -> Take(st, c, "plain")
      [] OTHER ->
            IF c = "'" THEN [st EXCEPT !.mode = "single", !.inword = TRUE]
            ELSE IF c = "\"" THEN [st EXCEPT !.mode = "double", !.inword = TRUE]
            ELSE IF c = "\\" THEN [st EXCEPT !.mode = "plain_escape", !.inword = TRUE]
            ELSE IF c = " "
            THEN [st EXCEPT !.words = Flush(st), !.word = <<>>, !.inword = FALSE]
            ELSE IF c \in {";", "|", "&", "\n"}
            THEN [st EXCEPT !.cmds = Append(@, Flush(st)), !.words = <<>>,
                            !.word = <<>>, !.inword = FALSE]
            ELSE Take(st, c, "plain")

ShStart == [mode |-> "plain", word |-> <<>>, inword |-> FALSE, words |-> <<>>, cmds |-> <<>>]

\* the commands of the line read, each the sequence of its words after quote
\* removal
sh_commands(st) == Append(st.cmds, Flush(st))

\* a shell about to read text
Reading(shell, text) == [shell |-> shell, text |-> text, pos |-> 0, st |-> ShStart]

MaxArgLen == 2
QuoteChars == {"$", Backtick, "\"", "!", "\\", "'", " ", ";", "&", "|", "\n", "a"}
\* one argument of up to MaxArgLen characters, or two of at most one
QuoteCommands ==
    {<<a>> : a \in SeqsUpTo(QuoteChars, MaxArgLen)}
    \cup {<<a, b>> : a \in SeqsUpTo(QuoteChars, 1), b \in SeqsUpTo(QuoteChars, 1)}

InitQuote ==
    /\ AllIdle
    /\ f_pc = "called"
    /\ f_in \in [handler : {"run", "launch"}, command : QuoteCommands, id : MarkerIds]
    /\ f_out = <<>>

\* the handler builds its line and types it into the pane, whose shell is to
\* read it: `tb run` the sh -c line, `tb launch` the escaped arguments
SendLine ==
    /\ f_pc = "called"
    /\ f_pc' = "reading"
    /\ f_out' = Reading("pane", IF f_in.handler = "run"
                                THEN build_shell_command(f_in.command, f_in.id)
                                ELSE EscapedJoin(f_in.command))
    /\ UNCHANGED <<mvars, marker_id, rvars, tvars, f_in>>

\* the shell reads the next character of its text
ShRead ==
    /\ f_pc = "reading"
    /\ f_out.pos < Len(f_out.text)
    /\ f_out' = [f_out EXCEPT !.pos = @ + 1, !.st = sh_step(@, f_out.text[f_out.pos + 1])]
    /\ UNCHANGED <<mvars, marker_id, rvars, tvars, f_pc, f_in>>

\* the words of the pane's command are sh, -c and a script
IsShC(words) == Len(words) = 3 /\ words[1] = <<"s", "h">> /\ words[2] = <<"-", "c">>

\* the pane's shell has read the line of `tb run` and starts sh on the script
ShStartScript ==
    /\ f_pc = "reading"
    /\ f_out.pos = Len(f_out.text)
    /\ f_out.shell = "pane"
    /\ f_in.handler = "run"
    /\ IsShC(sh_commands(f_out.st)[1])
    /\ f_out' = Reading("sh", sh_commands(f_out.st)[1][3])
    /\ UNCHANGED <<mvars, marker_id, rvars, tvars, f_pc, f_in>>

\* the shell that is to run the user's command has read its text: the words
\* it runs are those of the first command of the line of `tb launch`, of the
\* second command (between the two echo) of the script of `tb run`
ShRunCommand ==
    /\ f_pc = "reading"
    /\ f_out.pos = Len(f_out.text)
    /\ f_in.handler = "run" => f_out.shell = "sh"
    /\ f_pc' = "returned"
    /\ f_out' = LET cmds == sh_commands(f_out.st)
                    k == IF f_in.handler = "run" THEN 2 ELSE 1
                IN  IF Len(cmds) >= k THEN cmds[k] ELSE <<>>
    /\ UNCHANGED <<mvars, marker_id, rvars, tvars, f_in>>

NextQuote == SendLine \/ ShRead \/ ShStartScript \/ ShRunCommand

SpecQuote == InitQuote /\ [][NextQuote]_vars

\* C19: the words the shell obtains from the injected line are the arguments
\* given: as many, with the same characters.
C19_QuotingRoundTrip == f_pc = "returned" => f_out = f_in.command

-----------------------------------------------------------------------------
(* The order of the checks in a poll iteration *)

\* the text a poll has to go by: what was captured once the capture is made,
\* what a capture would return before
TextAtPoll == IF r_pc = "examine" THEN pane_content ELSE screen

SentinelAtPoll == find_exit_code(TextAtPoll, end_marker_prefix(marker_id)).some

\* C20: a poll iteration whose text holds a qualifying end sentinel does not
\* end the run on a timeout: if the run ends at one of the iteration's checks, it ends
\* Completed with the command's code, whatever time has elapsed.
C20_SentinelBeforeTimeouts ==
    [][(r_pc \in {"check_max", "examine"} /\ SentinelAtPoll /\ r_pc' = "done")
       => (outcome' = "Completed" /\ exit_code' = Some(cmd_code))]_vars

-----------------------------------------------------------------------------
(* Output extraction and exit-code decoding *)

\* the least element of a non-empty set of numbers
Least(S) == CHOOSE i \in S : \A j \in S : i <= j

\* the lines of the text that are qualifying end sentinels
QualifyingEnds(lines, prefix) ==
    {i \in 1..Len(lines) : LineExitCode(lines[i], prefix).some}

\* the lines strictly between the first line that starts with the start
\* sentinel and the first qualifying end sentinel, joined by line feeds
LinesBetweenSentinels(text, start, prefix) ==
    LET lines  == Lines(text)
        starts == {i \in 1..Len(lines) : StartsWith(lines[i], start)}
        ends   == QualifyingEnds(lines, prefix)
    IN  IF starts = {} \/ ends = {} THEN <<>>
        ELSE IF Least(starts) >= Least(ends) THEN <<>>
        ELSE Join(SubSeq(lines, Least(starts) + 1, Least(ends) - 1), <<"\n">>)

\* C21: the extracted output is the lines strictly between the first line
\* that starts with the start sentinel and the first qualifying end sentinel
\* (the line the exit code is parsed from), and is empty when a boundary is
\* missing or the start is not before the end; a line that starts with the end
\* prefix without a parsable code is no boundary.
C21_ExtractBetweenSentinels ==
    m_pc = "decoded" =>
        m_output = LinesBetweenSentinels(content, start_marker(marker_id),
                                         end_marker_prefix(marker_id))

-----------------------------------------------------------------------------
(* find_exit_code on its own *)

MaxFindLines == 3

\* the lines of the texts: lines that start with the end prefix without being
\* a sentinel (no closing ___, nothing before it, the unsubstituted $?, a
\* number beyond i32), lines that are one (a negative number, text after the
\* closing ___), and lines without the prefix at their start
FindLineVals(id) ==
    LET NoClose == end_marker_prefix(id) \o <<"5", "_", "_">>
        EmptyCode == end_marker_prefix(id) \o <<"_", "_", "_">>
        Unsubstituted == end_marker_prefix(id) \o <<"$", "?", "_", "_", "_">>
        TooLarge == end_marker_prefix(id)
                    \o <<"2", "1", "4", "7", "4", "8", "3", "6", "4", "8", "_", "_", "_">>
        Negative == end_marker_prefix(id) \o <<"-", "1", "_", "_", "_">>
        Trailing == EndLine(id, 3) \o <<"_", "x">>
    IN  {PlainLine, EndLine(id, 0), EndLine(id, 42), BadEnd(id), NoClose, EmptyCode,
         Unsubstituted, TooLarge, Negative, Trailing, NearEnd(id), OtherEnd}

InitFind ==
    /\ AllIdle
    /\ f_pc = "called"
    /\ \E id \in MarkerIds :
          f_in \in [id : {id}, lines : SeqsUpTo(FindLineVals(id), MaxFindLines)]
    /\ f_out = <<>>

\* find_exit_code(&pane_content, &end_marker_prefix) on a captured text
FindExitCode ==
    /\ f_pc = "called"
    /\ f_pc' = "returned"
    /\ f_out' = find_exit_code(ScreenText(f_in.lines), end_marker_prefix(f_in.id))
    /\ UNCHANGED <<mvars, marker_id, rvars, tvars, f_in>>

NextFind == FindExitCode

SpecFind == InitFind /\ [][NextFind]_vars

\* the text of the line between the end prefix and the next ___, if the line
\* starts with the prefix and has a ___ after it
CodeText(line, prefix) ==
    LET after == SubSeq(line, Len(prefix) + 1, Len(line))
        closings == {k \in 0..(Len(after) - 3) : SubSeq(after, k + 1, k + 3) = <<"_", "_", "_">>}
    IN  IF StartsWith(line, prefix) /\ closings # {}
        THEN Some(SubSeq(after, 1, Least(closings)))
        ELSE None

\* the line is an end sentinel that carries an integer
Qualifies(line, prefix) ==
    CodeText(line, prefix).some /\ ParseI32(CodeText(line, prefix).val).some

\* C22: the decoder reports code c only for the first line, in screen order,
\* that starts with the end prefix and has an integer c between the prefix and
\* the next ___; a text without such a line is reported as not yet complete.
C22_ExitCodeDecoding ==
    f_pc = "returned" =>
        LET prefix == end_marker_prefix(f_in.id)
            q == {i \in 1..Len(f_in.lines) : Qualifies(f_in.lines[i], prefix)}
        IN  IF q = {} THEN f_out = None
            ELSE f_out = ParseI32(CodeText(f_in.lines[Least(q)], prefix).val)

\* an unparsable line with the end prefix, then two sentinels with different
\* codes: the first of the two is reported
C22_Witness ==
    /\ f_pc = "returned"
    /\ f_in.lines = <<BadEnd(f_in.id), EndLine(f_in.id, 42), EndLine(f_in.id, 0)>>
    /\ f_out = Some(42)

-----------------------------------------------------------------------------
(* Capacity of the session *)

\* C23: as long as no tmux call has failed, the session holds at most 6 live
\* task panes, and so at most 7 panes with the main pane.
C23_AtMostSixTasks ==
    faults = 0 =>
        /\ Cardinality(TaskPanes) <= MaxTasks
        /\ Len(panes) <= MaxTasks + 1

-----------------------------------------------------------------------------
(* The keys sent on a timeout *)

\* C24: a run that ended on either timeout has sent the interrupt key and,
\* three seconds later, the kill key - both, in that order, whatever became of
\* the sends - before it reported the timeout with status 124; nothing is
\* asked of the command's state.
C24_BothKeysThenReport ==
    TimedOut =>
        /\ Len(keys) = 2
        /\ keys[1].key = "C-c" /\ keys[2].key = "C-\\"
        /\ keys[2].at - keys[1].at = KillGraceSecs * TicksPerSec
        /\ now >= keys[2].at
        /\ r_pc = "done"
        /\ exit_status = Some(TimeoutStatus)

\* an overall timeout reported although the first key reached the pane, the
\* second did not, and the command was still running
C24_Witness ==
    /\ outcome = "TimedOutTotal"
    /\ Len(keys) = 2 /\ keys[1].ok /\ ~keys[2].ok
    /\ cmd_pc = "started"
    /\ exit_status = Some(TimeoutStatus)

-----------------------------------------------------------------------------
(* A session on which run and the task handlers are used in turn *)

\* cmd_run from its entry through the poll loop, the pane it types into, and
\* launch, check and done before and after it
NextSession == NextRun \/ TaskStep

\* the tmux calls of the task handlers all succeed here
SpecSession == InitEntryWith({0, 1}, MaxFaults) /\ [][NextSession]_vars

\* C25: the interrupt and the kill key are sent on the two timeout paths
\* only: a key was sent only by a run that then ended TimedOutIdle or
\* TimedOutTotal, and no step of launch, check or done sends one.
C25_KeysOnlyOnTimeout ==
    [][/\ (keys' # keys => (r_pc' = "done" /\ TimedOut'))
       /\ (HandlerStep => keys' = keys)
       /\ ((r_pc' = "done" /\ outcome' \in {"Completed", "Failed"}) => keys' = <<>>)]_vars

\* a run that completed without a key, and a task closed after it
C25_Witness ==
    /\ r_pc = "done" /\ outcome = "Completed" /\ keys = <<>>
    /\ t_result.op = "done" /\ t_result.ok

-----------------------------------------------------------------------------
(* The idle timer *)

\* the rest of a poll whose captured text holds no end sentinel
PollWithoutSentinel ==
    /\ r_pc = "examine" /\ r_pc' # r_pc
    /\ ~find_exit_code(pane_content, end_marker_prefix(marker_id)).some

\* C26: a poll that finds no end sentinel sets the idle timer to the time of
\* the poll when the captured length differs from the length of the poll
\* before (0 before the first poll) and leaves it alone when the length is the
\* same; the length seen is kept for the next poll; once the line is injected
\* the overall timer never changes.
C26_IdleTimerOnLengthChange ==
    [][/\ PollWithoutSentinel =>
            /\ last_output_time' = IF Len(pane_content) # last_output_len
                                   THEN now ELSE last_output_time
            /\ last_output_len' = Len(pane_content)
       /\ r_pc # "init" => start_time' = start_time]_vars

\* the run waits for its next poll: an earlier poll saw a new length and
\* reset the idle timer, the last poll saw the same length again and left it
C26_Witness ==
    /\ r_pc = "sleep"
    /\ last_output_len = Len(pane_content) /\ last_output_len > 0
    /\ start_time < last_output_time /\ last_output_time < now

-----------------------------------------------------------------------------
(* Termination of run *)

\* the ticks a run may still spend in its poll loop
TicksLeft == (max_time * TicksPerSec + MaxSleepTicks) - (now - start_time)

\* the order of the steps of one iteration; each leads on or ends the run
IterationOrder ==
    /\ r_pc = "sleep" => r_pc' = "check_max" /\ now' > now
    /\ r_pc = "check_max" => r_pc' \in {"capture", "done"}
    /\ r_pc = "capture" => r_pc' \in {"examine", "done"}
    /\ r_pc = "examine" => r_pc' \in {"sleep", "done"}

RunOutcomes == {"Completed", "TimedOutIdle", "TimedOutTotal", "Failed"}

\* C27: every run ends, in exactly one of Completed, TimedOutIdle,
\* TimedOutTotal or a failure. Stated with a measure: the ticks left to the
\* poll loop are never negative while it runs, every iteration passes through the
\* sleep, which uses up at least one of them, every other step of the loop
\* leads to the next or ends the run, and a run that has ended has one
\* outcome, which it keeps.
C27_RunTerminates ==
    /\ [](Polling => TicksLeft >= 0)
    /\ []((r_pc = "done") = (outcome \in RunOutcomes))
    /\ []((r_pc # "done") = (outcome = "none"))
    /\ [][/\ (Polling /\ r_pc' # r_pc) => IterationOrder
          /\ Polling => TicksLeft' <= TicksLeft \/ r_pc' = "done"
          /\ r_pc = "done" => (r_pc' = "done" /\ outcome' = outcome)]_vars

\* a run with the largest timeouts that ended although its command never
\* did and the keys did not reach the pane
C27_Witness ==
    /\ r_pc = "done" /\ outcome = "TimedOutTotal"
    /\ max_time = MaxMaxTime /\ timeout = MaxTimeout
    /\ cmd_pc = "started"
    /\ ~keys[1].ok /\ ~keys[2].ok

-----------------------------------------------------------------------------
(* A launch whose tag could not be written *)

\* a launch has split a pane, typed the command and gone on to the tag, and
\* the new pane carries none
UntaggedLaunch ==
    /\ t_result' # t_result /\ t_result'.op = "launch"
    /\ Len(t_result'.calls) = 3
    /\ created' = created + 1
    /\ \E i \in 1..Len(panes') : panes'[i].id = created' /\ panes'[i].tag = ""

\* C28: a launch whose tag write failed after the split and the injection
\* reports success and a task id, and its pane stays in the session, where
\* the next count of task panes includes it.
C28_TagFailureNotFatal ==
    [][UntaggedLaunch =>
          /\ t_result'.ok /\ t_result'.status = 0
          /\ t_result'.task \in {TaskId(n) : n \in 1..MaxTasks}
          /\ Len(panes') = Len(panes) + 1
          /\ count_task_panes(TRUE)' = count_task_panes(TRUE) + 1]_vars

\* the sixth launch in a row succeeded without its tag: the session is full
C28_Witness ==
    /\ t_result.op = "launch" /\ t_result.ok /\ t_result.task = TaskId(MaxTasks)
    /\ Len(panes) = MaxTasks + 1
    /\ \E i \in 1..Len(panes) : panes[i].id = created /\ created # 0 /\ panes[i].tag = ""
    /\ count_task_panes(TRUE) = MaxTasks

-----------------------------------------------------------------------------
(* The line of run as one literal line *)

\* the pane's shell is reading, or has read, the line that `tb run` typed
RunLineTyped == f_pc = "reading" /\ f_out.shell = "pane" /\ f_in.handler = "run"

\* C29: the line built by run holds no line feed, and its outer single
\* quotes end where the script ends: read by the shell, the line is the one
\* command sh -c with the script as its one last word, and escaping the
\* single quotes of that script again gives back the line.
C29_OneLiteralLine ==
    RunLineTyped =>
        /\ \A i \in 1..Len(f_out.text) : f_out.text[i] # "\n"
        /\ f_out.pos = Len(f_out.text) =>
              LET cmds == sh_commands(f_out.st)
              IN  /\ Len(cmds) = 1 /\ IsShC(cmds[1])
                  /\ f_out.text = <<"s", "h", " ", "-", "c", " ", "'">>
                                  \o Replace(cmds[1][3], "'", <<"'", "\\", "'", "'">>)
                                  \o <<"'">>

-----------------------------------------------------------------------------
(* Task state classification: is_process_running and the tail of cmd_check *)

\* char::is_whitespace, over the characters of the model
Whitespace == {" ", "\t", "\r", "\n"}

\* !l.trim().is_empty()
NotBlank(l) == \E i \in 1..Len(l) : l[i] \notin Whitespace

\* str::contains(&str)
Contains(s, p) == Find(s, p).some

\* a classification that takes any prompt character at the end for a prompt
is_process_running_NoAt(pane_text) ==
    LET lines == SelectSeq(Lines(pane_text), NotBlank)
    IN  IF lines = <<>> THEN TRUE
        ELSE \A p \in {<<"$">>, <<">">>, <<"%">>, <<"#">>} :
                 /\ ~EndsWith(lines[Len(lines)], p)
                 /\ ~EndsWith(lines[Len(lines)], p \o <<" ">>)

\* is_process_running: true unless the last line that is not blank looks like a
\* shell prompt
is_process_running(pane_text) ==
    LET lines == SelectSeq(Lines(pane_text), NotBlank)
    IN  IF lines = <<>> THEN TRUE
        ELSE LET last_line == lines[Len(lines)]
                 has_prompt_ending ==
                     \/ \E p \in {<<"$", " ">>, <<">", " ">>, <<"%", " ">>, <<"#", " ">>} :
                           EndsWith(last_line, p)
                     \/ /\ Contains(last_line, <<"@">>)
                        /\ \/ EndsWith(last_line, <<"$">>)
                           \/ EndsWith(last_line, <<">">>)
                           \/ EndsWith(last_line, <<"%">>)
                           \/ EndsWith(last_line, <<"#">>)
             IN  ~has_prompt_ending

MaxPaneLines == 2
MaxPaneLineLen == 3

\* the lines of the pane texts: every short line over a prompt character, the
\* at sign, a blank and a letter, and lines with the other prompt characters
\* and with other white space
PaneLineVals ==
    SeqsUpTo({"$", "@", " ", "a"}, MaxPaneLineLen)
    \cup {<<">", " ">>, <<"%", " ">>, <<"#", " ">>, <<">">>, <<"%">>, <<"#">>,
          <<"@", ">">>, <<"@", "%">>, <<"@", "#">>, <<"\t">>, <<"$", "\t">>}

InitCheckPane ==
    /\ AllIdle
    /\ f_pc = "called"
    /\ f_in \in [lines : SeqsUpTo(PaneLineVals, MaxPaneLines)]
    /\ f_out = <<>>

\* cmd_check once the pane is captured: classify the text, print it, and for a
\* task that is not running print a verdict (with or without an exit code)
\* and the hint to close the pane
CheckPane ==
    /\ f_pc = "called"
    /\ f_pc' = "returned"
    /\ LET is_running == is_process_running(ScreenText(f_in.lines))
       IN  f_out' = [is_running |-> is_running, verdict |-> ~is_running, hint |-> ~is_running]
    /\ UNCHANGED <<mvars, marker_id, rvars, tvars, f_in>>

NextCheckPane == CheckPane

SpecCheckPane == InitCheckPane /\ [][NextCheckPane]_vars

\* the last line of the text with a character that is not white space, if any
LastNonBlank(lines) ==
    LET ks == {k \in 1..Len(lines) : \E i \in 1..Len(lines[k]) : lines[k][i] \notin Whitespace}
    IN  IF ks = {} THEN None ELSE Some(lines[CHOOSE k \in ks : \A j \in ks : j <= k])

\* the line looks like a prompt
LooksLikePrompt(l) ==
    \/ Len(l) >= 2 /\ l[Len(l)] = " " /\ l[Len(l) - 1] \in {"$", ">", "%", "#"}
    \/ Len(l) >= 1 /\ l[Len(l)] \in {"$", ">", "%", "#"} /\ \E i \in 1..Len(l) : l[i] = "@"

\* C30: a text with no non-blank line is running; otherwise it is finished
\* exactly when its last non-blank line ends with a prompt character and a
\* blank, or contains @ and ends with a prompt character; check prints the
\* verdict and the close hint for finished texts only.
C30_Classification ==
    f_pc = "returned" =>
        LET last == LastNonBlank(f_in.lines)
            finished == last.some /\ LooksLikePrompt(last.val)
        IN  /\ f_out.is_running = ~finished
            /\ f_out.verdict => finished
            /\ f_out.hint => finished

\* a finished text whose prompt line is followed by blank lines only
C30_Witness ==
    /\ f_pc = "returned"
    /\ f_in.lines = <<<<"a", "@", "$">>, <<" ">>>>
    /\ ~f_out.is_running /\ f_out.verdict /\ f_out.hint

-----------------------------------------------------------------------------
(* Runs of commands that end, by what they print *)

\* what the command prints before it ends: nothing, a line, or a line that no
\* line feed ends (printf a)
EndingOutputs == {<<>>, << <<"a", "\n">> >>, << <<"a">> >>}

InitEnding == InitRunWith({1}, {1}, EndingOutputs, RunCodes)

SpecEnding == InitEnding /\ [][NextRun]_vars

\* a poll has captured the screen as it is after the command ended
PolledAfterExit ==
    /\ cmd_pc = "exited"
    /\ r_pc = "examine" /\ r_pc' # r_pc
    /\ pane_content = screen

\* C31: completion is detected whatever the command printed: the poll that
\* captures the screen once the command has ended with code c ends the run
\* Completed(c), and not in a timeout or with another iteration.
C31_CompletionDetected ==
    [][PolledAfterExit =>
          /\ r_pc' = "done" /\ outcome' = "Completed"
          /\ exit_code' = Some(cmd_code)]_vars

-----------------------------------------------------------------------------
(* The pane a task id resolves to *)

\* the last handler to report was a launch that succeeded, and no tmux call
\* has failed so far
JustLaunched == t_result.op = "launch" /\ t_result.ok /\ faults = 0

\* a check or a done of that launch's id comes next, gets past the session
\* check, and none of its tmux calls fails
NextUsesLaunchedId ==
    /\ t_result' # t_result
    /\ t_result'.op \in {"check", "done"}
    /\ t_result'.err \notin {"NoSessionSpecified", "SessionNotFound"}
    /\ t_result'.task = t_result.task
    /\ faults' = 0

\* C32: a check T or done T that follows the launch that returned T succeeds
\* on the pane that this launch created, the last pane split off.
C32_IdResolvesToOwnPane ==
    [][(JustLaunched /\ NextUsesLaunchedId) =>
          (t_result'.ok /\ t_result'.target = created)]_vars


\* a check or a done has resolved its task argument to a pane
ResolvedToPane ==
    /\ t_result' # t_result
    /\ t_result'.op \in {"check", "done"}
    /\ t_result'.target # NoPane

\* C33: whatever the task argument, the pane a check or a done resolves to is
\* one that launch split off and tagged, and the session's main pane is
\* still there after every done.
C33_OnlyTaskPanesResolved ==
    [][/\ ResolvedToPane =>
            (t_result'.target # 0 /\ PaneOf(t_result'.target).tag # "")
       /\ MainAlive => MainAlive']_vars


\* the step is a launch that reports failure
LaunchFailed == t_result'.op = "launch" /\ ~t_result'.ok

\* C34: whenever launch reports failure (session missing, at capacity, split
\* failed, or the command could not be injected) the session holds the same
\* panes, in the same places and with the same tags, as before the call.
C34_LaunchAllOrNothing == [][LaunchFailed => panes' = panes]_vars


\* the step is a launch that split a pane off
LaunchSplit == t_result'.op = "launch" /\ created' = created + 1

\* C35: launch splits a pane only in a session with fewer than 6 live task
\* panes, whatever became of its pane listing call: a session at capacity
\* never receives a 7th task pane.
C35_SplitOnlyBelowCapacity ==
    [][LaunchSplit => Cardinality(TaskPanes) < MaxTasks]_vars


-----------------------------------------------------------------------------
(* Two `tb launch` processes on one session, one tmux call at a time *)

\* the two invocations
Launchers == {1, 2}

\* the session as n launches in a row leave it
RECURSIVE SessionAfter(_)
SessionAfter(n) ==
    IF n = 0 THEN << [id |-> 0, tag |-> ""] >>
    ELSE LET new == [id |-> n, tag |-> TaskId(n)]
         IN  IF n - 1 < TopRowTasks
             THEN InsertBefore(SessionAfter(n - 1), n - 1, new)
             ELSE InsertAfter(SessionAfter(n - 1), (n - 1) - TopRowTasks, new)

\* a cmd_launch that has made no tmux call yet
LaunchEntered == [pc |-> "start", task_count |-> 0, task_id |-> "",
                  pane_target |-> NoPane, err |-> ""]

\* cmd_launch returns: Err(message), or Ok after printing the task id
LaunchReturns(l, err) == [l EXCEPT !.pc = "done", !.err = err]

\* both invocations are started on a session that holds up to 6 tasks
InitRace ==
    /\ MarkerIdle
    /\ FnIdle
    /\ marker_id = <<>>
    /\ timeout = 0 /\ max_time = 0 /\ command = <<>> /\ cmd_out = <<>> /\ cmd_code = 0
    /\ sessions = {"tb-s1"}
    /\ screen = <<>> /\ cmd_pc = "none" /\ cmd_printed = 0
    /\ r_pc = "idle" /\ now = 0 /\ start_time = 0 /\ last_output_time = 0
    /\ last_output_len = 0 /\ pane_content = <<>> /\ keys = <<>> /\ outcome = "none"
    /\ exit_code = None /\ exit_status = None /\ stdout = <<>>
    /\ created \in 0..MaxTasks
    /\ panes = SessionAfter(created)
    /\ max_issued = created
    /\ t_result = [op |-> "none"]
    /\ streak = 0 - 1
    /\ faults = 0
    /\ active = 0
    /\ launches = [p \in Launchers |-> LaunchEntered]

\* resolve_session, session_exists, count_task_panes and the capacity test
LaunchCount(p) ==
    /\ launches[p].pc = "start"
    /\ \E checked \in SessionChecks, listed \in BOOLEAN :
        LET task_count == count_task_panes(listed)
        IN  /\ faults + Failed(<<listed>>) <= MaxFaults
            /\ faults' = faults + Failed(<<listed>>)
            /\ launches' = [launches EXCEPT ![p] =
                  IF checked # "ok" THEN LaunchReturns(@, checked)
                  ELSE IF task_count >= MaxTasks THEN LaunchReturns(@, "TooManyTasks")
                  ELSE [@ EXCEPT !.pc = "counted", !.task_count = task_count,
                                 !.task_id = TaskId(task_count + 1)]]
    /\ UNCHANGED <<mvars, marker_id, rvars, fvars, panes, created, t_result, max_issued,
                   streak, active>>

\* tmux split-window on the pane index worked out from the count
LaunchSplitWindow(p) ==
    /\ launches[p].pc = "counted"
    /\ \E split \in BOOLEAN :
        LET task_count == launches[p].task_count
            index == IF task_count < TopRowTasks THEN task_count
                     ELSE task_count - TopRowTasks
            new == [id |-> created + 1, tag |-> ""]
        IN  /\ faults + Failed(<<split>>) <= MaxFaults
            /\ faults' = faults + Failed(<<split>>)
            /\ IF split /\ index < Len(panes)
               THEN /\ panes' = IF task_count < TopRowTasks
                                THEN InsertBefore(panes, index, new)
                                ELSE InsertAfter(panes, index, new)
                    /\ created' = created + 1
                    /\ active' = SplitFocus(active, new.id)
                    /\ launches' = [launches EXCEPT ![p].pc = "split",
                                                    ![p].pane_target = new.id]
               ELSE /\ launches' = [launches EXCEPT ![p] = LaunchReturns(@, "SplitFailed")]
                    /\ UNCHANGED <<panes, created, active>>
    /\ UNCHANGED <<mvars, marker_id, rvars, fvars, t_result, max_issued, streak>>

\* tmux send-keys to the pane the split printed
LaunchSendKeys(p) ==
    /\ launches[p].pc = "split"
    /\ \E sent \in BOOLEAN :
        /\ faults + Failed(<<sent>>) <= MaxFaults
        /\ faults' = faults + Failed(<<sent>>)
        /\ launches' = [launches EXCEPT ![p] =
              IF sent THEN [@ EXCEPT !.pc = "sent"] ELSE LaunchReturns(@, "SendFailed")]
    /\ UNCHANGED <<mvars, marker_id, rvars, fvars, panes, created, t_result, max_issued,
                   streak, active>>

\* tmux set-option -p @tb_task, its result dropped, then Ok
LaunchSetOption(p) ==
    /\ launches[p].pc = "sent"
    /\ \E tagged \in BOOLEAN :
        /\ faults + Failed(<<tagged>>) <= MaxFaults
        /\ faults' = faults + Failed(<<tagged>>)
        /\ panes' = IF tagged THEN SetTag(panes, launches[p].pane_target, launches[p].task_id)
                    ELSE panes
        /\ launches' = [launches EXCEPT ![p] = LaunchReturns(@, "")]
    /\ UNCHANGED <<mvars, marker_id, rvars, fvars, created, t_result, max_issued, streak,
                   active>>

NextRace ==
    \E p \in Launchers :
        \/ LaunchCount(p)
        \/ LaunchSplitWindow(p)
        \/ LaunchSendKeys(p)
        \/ LaunchSetOption(p)

SpecRace == InitRace /\ [][NextRace]_vars

\* the invocation printed a task id and returned Ok
LaunchReturnedId(p) == launches[p].pc = "done" /\ launches[p].err = ""

\* C36: however the tmux calls of two launches on one session interleave, the
\* session never holds more than 6 task panes and the two launches never
\* return the same task id.
C36_InterleavedLaunches ==
    /\ Cardinality(TaskPanes) <= MaxTasks
    /\ \A p, q \in Launchers :
          (p # q /\ LaunchReturnedId(p) /\ LaunchReturnedId(q))
              => launches[p].task_id # launches[q].task_id


-----------------------------------------------------------------------------
(* The echo of the injected line in a pane that wraps it *)

\* the pane widths looked at
MinPaneWidth == 10
MaxPaneWidth == 80

\* a line longer than the pane is shown, and captured, as rows of the pane's width
RECURSIVE WrapAt(_, _)
WrapAt(s, w) ==
    IF Len(s) <= w THEN s
    ELSE SubSeq(s, 1, w) \o <<"\n">> \o WrapAt(SubSeq(s, w + 1, Len(s)), w)

\* a row of the line, shown in a pane of width w, starts with a sentinel
RowAtSentinel(line, w, id) ==
    \E k \in 0..(Len(line) \div w) :
        LET last == IF (k + 1) * w < Len(line) THEN (k + 1) * w ELSE Len(line)
            row == SubSeq(line, k * w + 1, last)
        IN  StartsWith(row, end_marker_prefix(id)) \/ StartsWith(row, start_marker(id))

\* cmd_run right after send-keys: the pane shows the prompt and the typed
\* line, wrapped at its width; the widths are the widest one and those that
\* put a sentinel of the typed line at the start of a row
InitEcho ==
    /\ MarkerIdle
    /\ TasksIdle
    /\ FnIdle
    /\ marker_id \in MarkerIds
    /\ timeout \in {1}
    /\ max_time \in {1}
    /\ command \in RunCommands
    /\ cmd_out \in RunOutputs
    /\ cmd_code \in RunCodes
    /\ sessions = {"tb-s1"}
    /\ \E w \in MinPaneWidth..MaxPaneWidth :
        LET typed == PromptLine \o build_shell_command(command, marker_id)
        IN  /\ w = MaxPaneWidth \/ RowAtSentinel(typed, w, marker_id)
            /\ screen = WrapAt(typed, w) \o <<"\n">>
    /\ cmd_pc = "typed"
    /\ cmd_printed = 0
    /\ r_pc = "sleep"
    /\ now = 0
    /\ start_time = 0
    /\ last_output_time = 0
    /\ last_output_len = 0
    /\ pane_content = <<>>
    /\ keys = <<>>
    /\ outcome = "none"
    /\ exit_code = None
    /\ exit_status = None
    /\ stdout = <<>>

NextEcho == Sleep \/ CheckMaxTime \/ CapturePane \/ Examine \/ PaneStep

SpecEcho == InitEcho /\ [][NextEcho]_vars

\* a row of the screen starts with the end prefix and carries no exit status:
\* the echoed text of the injected line
EchoLooksLikeEnd ==
    \E i \in 1..Len(Lines(screen)) :
        /\ StartsWith(Lines(screen)[i], end_marker_prefix(marker_id))
        /\ Lines(screen)[i] # EndLine(marker_id, cmd_code)

\* C37: the echo of the injected line, which holds the end sentinel with $?
\* in place of the exit status, is never taken for an end sentinel, wherever
\* the pane wraps it: while the shell has not printed the end sentinel no
\* sentinel is found on the screen, and a run that ends Completed ends after
\* the shell printed it, with the status it carries.
C37_EchoIsNoSentinel ==
    /\ cmd_pc # "exited" => ~find_exit_code(screen, end_marker_prefix(marker_id)).some
    /\ outcome = "Completed" => (cmd_pc = "exited" /\ exit_code = Some(cmd_code))

C37_Witness == outcome = "Completed" /\ EchoLooksLikeEnd


-----------------------------------------------------------------------------
(* No timeout before its time *)

\* C38: a run ends TimedOutIdle only when at least --timeout whole seconds lie
\* between the last poll that saw the captured length change (the injection
\* when no poll did) and the poll that gave up, and TimedOutTotal only when
\* at least --max-time whole seconds lie between the injection and the check
\* that gave up; the interrupt key is sent at the moment of giving up.
C38_NoSpuriousTimeout ==
    /\ outcome = "TimedOutIdle" =>
          keys[1].at - last_output_time >= timeout * TicksPerSec
    /\ outcome = "TimedOutTotal" =>
          keys[1].at - start_time >= max_time * TicksPerSec

\* an idle timeout of a second or more, counted from a poll that saw new
\* output and not from the injection
C38_Witness ==
    /\ outcome = "TimedOutIdle"
    /\ timeout >= 1
    /\ last_output_time > start_time
    /\ keys[1].at - last_output_time < (timeout + 1) * TicksPerSec


-----------------------------------------------------------------------------
(* The input focus *)

\* cmd_run types its line: send-keys to the session goes to the pane with
\* the focus, and so does capture-pane
RunInjects == r_pc = "init" /\ r_pc' = "sleep"

\* C39: from a session whose focus is on the main pane, no launch, check or
\* done moves the focus: the main pane has it for as long as the session has
\* panes, and the line of every run is typed into the main pane.
C39_FocusStaysOnMain ==
    [][/\ panes' # <<>> => active' = 0
       /\ RunInjects => active = 0]_vars

====
